---- MODULE Spec2Model ----
(***************************************************************************)
(* ec2-ssh-proxy: an SSH ProxyCommand helper.  One run parses the command  *)
(* line, resolves the HOST argument against a host name pattern, looks the *)
(* EC2 instance up, pushes an SSH public key, starts an SSM session and    *)
(* hands the terminal over to the session-manager-plugin child process.    *)
(*                                                                         *)
(* Strings are modelled as sequences of one-character strings, so that the *)
(* regular expression match of parseHostname and the integer conversions   *)
(* are computed and not assumed.                                           *)
(***************************************************************************)
EXTENDS Integers, Sequences, FiniteSets, TLC

VARIABLES
    pc,           \* position of the main goroutine in main/run
    args,         \* the command line (os.Args[1:])
    params,       \* the Params record built by parseArgs
    err,          \* the error run() is carrying ("" is nil)
    calls,        \* operations issued so far, in order (AWS API calls, the exec)
    sent,         \* the request sent with each operation
    response,     \* findInstance's local out: the DescribeInstances response
    instance,     \* instanceId and availabilityZone held by run()
    client,       \* the Client made by newClient: its profile, region, endpoint
    session,      \* the SSM session: "none", "open", "terminated"
    checked,      \* outcome of plugin.check(): "none", "ok", "missing"
    pluginOnPath, \* session-manager-plugin is resolvable on PATH right now
    lookPathErr,  \* exec.Command recorded a LookPath failure in cmd
    goos,         \* runtime.GOOS
    ignored,      \* signals the parent currently ignores
    sigcalls,     \* number of signal.Ignore and signal.Reset calls made
    absorbed,     \* ignored signals delivered to the parent while the child ran
    proc,         \* the parent process: "running", "stopped", "killed", "exited"
    exitCode,     \* exit status of the parent (-1 while it has none)
    stderr        \* what the parent wrote to standard error

vars == <<pc, args, params, err, calls, sent, response, instance, client,
          session, checked, pluginOnPath, lookPathErr, goos, ignored, sigcalls,
          absorbed, proc, exitCode, stderr>>

----------------------------------------------------------------------------
(* Bounds of the model *)

MaxPatLen == 2

MaxHostLen == 3

MaxReservations == 2

----------------------------------------------------------------------------
(* Strings *)

Str0 == << >>

Digits == <<"0", "1", "2", "3", "4", "5", "6", "7", "8", "9">>

DigitChars == {Digits[i] : i \in 1..10}

DigitVal(c) == (CHOOSE i \in 1..10 : Digits[i] = c) - 1

\* [\w-] over the characters of the model: letters, digits, "_" and "-"
WordChars == {"a", "c", "e", "m", "n", "_", "-"} \cup DigitChars

SeqsUpTo(S, n) == UNION {[1..k -> S] : k \in 0..n}

RECURSIVE ParseDigits(_)
ParseDigits(s) ==
    IF s = Str0 THEN 0
    ELSE 10 * ParseDigits(SubSeq(s, 1, Len(s) - 1)) + DigitVal(s[Len(s)])

AllDigits(s) == s # Str0 /\ \A i \in 1..Len(s) : s[i] \in DigitChars

\* strconv.ParseInt as go-flags applies it to the PORT argument
IsInt(s) ==
    \/ AllDigits(s)
    \/ Len(s) > 1 /\ s[1] \in {"-", "+"} /\ AllDigits(Tail(s))

ParseInt(s) ==
    IF s[1] = "-" THEN 0 - ParseDigits(Tail(s))
    ELSE IF s[1] = "+" THEN ParseDigits(Tail(s))
    ELSE ParseDigits(s)

RECURSIVE ItoaNat(_)
ItoaNat(n) ==
    IF n < 10 THEN <<Digits[n + 1]>>
    ELSE ItoaNat(n \div 10) \o <<Digits[(n % 10) + 1]>>

\* strconv.Itoa
Itoa(n) == IF n < 0 THEN <<"-">> \o ItoaNat(0 - n) ELSE ItoaNat(n)

----------------------------------------------------------------------------
(* Host name patterns and their regular expressions *)

Placeholders == {"{name}", "{id}", "{profile}"}

GroupName(tok) ==
    CASE tok = "{name}" -> "name"
      [] tok = "{id}" -> "id"
      [] tok = "{profile}" -> "profile"

\* the default of the --pattern flag: ec2.%(name)
DefaultPattern == <<"e", "c", "2", ".", "%", "(", "n", "a", "m", "e", ")">>

Node(op, arg) == [op |-> op, arg |-> arg]

\* One token of the pattern as regular expression syntax.  A placeholder
\* becomes (?P<x>[\w-]+); "." is any character; parentheses group.
TokenNodes(tok) ==
    IF tok \in Placeholders
    THEN <<Node("open", GroupName(tok)), Node("plus", ""), Node("close", "")>>
    ELSE IF tok = "." THEN <<Node("any", "")>>
    ELSE IF tok = "(" THEN <<Node("open", "")>>
    ELSE IF tok = ")" THEN <<Node("close", "")>>
    ELSE <<Node("lit", tok)>>

RECURSIVE Substitute(_)
Substitute(pattern) ==
    IF pattern = Str0 THEN << >>
    ELSE TokenNodes(Head(pattern)) \o Substitute(Tail(pattern))

RECURSIVE Depth(_, _)
Depth(re, k) ==
    IF k = 0 THEN 0
    ELSE Depth(re, k - 1)
         + (IF re[k].op = "open" THEN 1 ELSE IF re[k].op = "close" THEN -1 ELSE 0)

\* regexp.Compile succeeds: every parenthesis is matched
Compiles(re) ==
    /\ \A k \in 1..Len(re) : Depth(re, k) >= 0
    /\ Depth(re, Len(re)) = 0

Opens(re) == {k \in 1..Len(re) : re[k].op = "open"}

\* the k-th node of the n-th capture group's opening parenthesis
OpenAt(re, n) == CHOOSE k \in Opens(re) : Cardinality({j \in Opens(re) : j <= k}) = n

CloseOf(re, k) ==
    CHOOSE c \in (k + 1)..Len(re) :
        /\ re[c].op = "close"
        /\ Depth(re, c) = Depth(re, k) - 1
        /\ \A j \in (k + 1)..(c - 1) : Depth(re, j) >= Depth(re, k)

\* Regexp.SubexpNames: "" for the whole match, then one name per group
SubexpNames(re) ==
    <<"">> \o [n \in 1..Cardinality(Opens(re)) |-> re[OpenAt(re, n)].arg]

NoMatch == <<0>>

Cons(h, rest) == IF rest = NoMatch THEN NoMatch ELSE <<h>> \o rest

Max(S) == CHOOSE x \in S : \A y \in S : y <= x

Min(S) == CHOOSE x \in S : \A y \in S : x <= y

\* The match a backtracking matcher finds first from node k at position h:
\* the position before each remaining node and the end position.
RECURSIVE MatchFrom(_, _, _, _)
MatchFrom(re, k, host, h) ==
    IF k > Len(re) THEN <<h>>
    ELSE LET n == re[k] IN
        CASE n.op = "lit" ->
                IF h <= Len(host) /\ host[h] = n.arg
                THEN Cons(h, MatchFrom(re, k + 1, host, h + 1)) ELSE NoMatch
          [] n.op = "any" ->
                IF h <= Len(host)
                THEN Cons(h, MatchFrom(re, k + 1, host, h + 1)) ELSE NoMatch
          [] n.op \in {"open", "close"} ->
                Cons(h, MatchFrom(re, k + 1, host, h))
          [] n.op = "plus" ->
                LET lens == {l \in 1..(Len(host) - h + 1) :
                               /\ \A j \in h..(h + l - 1) : host[j] \in WordChars
                               /\ MatchFrom(re, k + 1, host, h + l) # NoMatch}
                IN IF lens = {} THEN NoMatch
                   ELSE Cons(h, MatchFrom(re, k + 1, host, h + Max(lens)))

\* a nil slice
Nil == << >>

\* Regexp.FindStringSubmatch: the leftmost match's text and the text of
\* every group, or nil when the expression matches nowhere.
FindStringSubmatch(re, host) ==
    LET starts == {s \in 1..(Len(host) + 1) : MatchFrom(re, 1, host, s) # NoMatch}
    IN IF starts = {} THEN Nil
       ELSE LET path == MatchFrom(re, 1, host, Min(starts))
            IN <<SubSeq(host, path[1], path[Len(path)] - 1)>> \o
               [n \in 1..Cardinality(Opens(re)) |->
                   SubSeq(host, path[OpenAt(re, n)],
                          path[CloseOf(re, OpenAt(re, n))] - 1)]

----------------------------------------------------------------------------
(* parseHostname *)

ErrInvalidPattern == "invalid host name pattern"
ErrAmbiguousHost == "name and id could not be specified at same time"
ErrUnresolvedHost == "neither name nor id is specified"
PanicIndex == "panic: runtime error: index out of range"

\* AssignGroups with the name and id branches writing each other's field
RECURSIVE AssignGroupsSwapped(_, _, _, _)
AssignGroupsSwapped(keys, vals, i, p) ==
    IF i > Len(keys) THEN p
    ELSE LET v == vals[i]
             k == keys[i]
             p1 == IF k = "name" THEN [p EXCEPT !.Id = v] ELSE p
             p2 == IF k = "id" THEN [p1 EXCEPT !.Name = v] ELSE p1
             p3 == IF k = "profile" THEN [p2 EXCEPT !.Profile = v] ELSE p2
         IN AssignGroupsSwapped(keys, vals, i + 1, p3)

\* the loop over keys: the value of the group called key overwrites the field
RECURSIVE AssignGroups(_, _, _, _)
AssignGroups(keys, vals, i, p) ==
    IF i > Len(keys) THEN p
    ELSE LET v == vals[i]
             k == keys[i]
             p1 == IF k = "name" THEN [p EXCEPT !.Name = v] ELSE p
             p2 == IF k = "id" THEN [p1 EXCEPT !.Id = v] ELSE p1
             p3 == IF k = "profile" THEN [p2 EXCEPT !.Profile = v] ELSE p2
         IN AssignGroups(keys, vals, i + 1, p3)

\* parseHostname(hostname, pattern, p): [p, err, panic]
parseHostname(hostname, pattern, p) ==
    LET re == Substitute(pattern) IN
    IF ~Compiles(re) THEN [p |-> p, err |-> ErrInvalidPattern, panic |-> FALSE]
    ELSE LET keys == SubexpNames(re)
             vals == FindStringSubmatch(re, hostname)
         IN IF vals = Nil
            THEN [p |-> p, err |-> PanicIndex, panic |-> TRUE]
            ELSE LET q == AssignGroups(keys, vals, 1, p) IN
                 IF q.Name # Str0 /\ q.Id # Str0
                 THEN [p |-> q, err |-> ErrAmbiguousHost, panic |-> FALSE]
                 ELSE IF q.Name = Str0 /\ q.Id = Str0
                 THEN [p |-> q, err |-> ErrUnresolvedHost, panic |-> FALSE]
                 ELSE [p |-> q, err |-> "", panic |-> FALSE]

----------------------------------------------------------------------------
(* The command line and parseArgs *)

Flag(given, value) == [given |-> given, value |-> value]

\* a flag's value after go-flags applied the default
OptValue(flag, default) == IF flag.given THEN flag.value ELSE default

DefaultKeyFile == <<"~", "/", "k">>

DefaultUser == <<"e", "c", "2", "-", "u", "s", "e", "r">>

ErrFlags == "flags: cannot parse the PORT argument"
ErrHome == "$HOME is not defined"
ErrReadFile == "open: no such file or directory"

HasPrefix(s, prefix) ==
    Len(s) >= Len(prefix) /\ SubSeq(s, 1, Len(prefix)) = prefix

ZeroParams ==
    [Profile |-> Str0, User |-> Str0, Port |-> 0, PublicKey |-> Str0,
     Id |-> Str0, Name |-> Str0]

Result(p, e, panic) == [p |-> p, err |-> e, panic |-> panic]

\* parseArgs(args) on a file system fs: [p, err, panic]; p is the zero
\* Params where the code returns nil.
parseArgs(a, fs) ==
    IF ~IsInt(a.port) THEN Result(ZeroParams, ErrFlags, FALSE)
    ELSE LET ret == [ZeroParams EXCEPT !.Profile = a.profile,
                                       !.User = OptValue(a.user, DefaultUser),
                                       !.Port = ParseInt(a.port)]
             kf == OptValue(a.keyFile, DefaultKeyFile)
         IN IF HasPrefix(kf, <<"~", "/">>) /\ ~fs.home
            THEN Result(ZeroParams, ErrHome, FALSE)
            ELSE IF ~fs.readable THEN Result(ZeroParams, ErrReadFile, FALSE)
            ELSE LET r == parseHostname(a.host, OptValue(a.pattern, DefaultPattern),
                                        [ret EXCEPT !.PublicKey = fs.content])
                 IN IF r.err # "" THEN Result(ZeroParams, r.err, r.panic) ELSE r

FileSystems == [home : BOOLEAN, readable : BOOLEAN, content : {<<"k">>}]

----------------------------------------------------------------------------
(* Inputs *)

PatTokens == {"a", ".", "("} \cup Placeholders

HostChars == {"a", "-", "."}

\* a placeholder occurs at most once in a pattern
Patterns ==
    {p \in SeqsUpTo(PatTokens, MaxPatLen) :
        \A i, j \in 1..Len(p) : (p[i] \in Placeholders /\ p[i] = p[j]) => i = j}

Hosts == SeqsUpTo(HostChars, MaxHostLen)

PatternFlags == {Flag(FALSE, Str0)} \cup {Flag(TRUE, p) : p \in Patterns}

ProfileFlags == {Str0, <<"p">>}

KeyFileFlags == {Flag(FALSE, Str0), Flag(TRUE, <<"/", "k">>)}

PortArgs == {<<"x">>, <<"-", "1">>, <<"0">>, <<"2", "2">>}

CommandLine(pattern, profile, keyFile, host, port) ==
    [pattern |-> pattern, profile |-> profile, keyFile |-> keyFile,
     user |-> Flag(FALSE, Str0), host |-> host, port |-> port]

\* the command lines the whole pipeline is run on
RunArgs ==
    {CommandLine(Flag(TRUE, pt), pf, Flag(FALSE, Str0), h, po) :
        pt \in {<<"a", ".", "{name}">>, <<"{id}">>, <<"{profile}", ".", "{name}">>},
        pf \in ProfileFlags,
        h \in {<<"a", ".", "a", "-">>, <<"-">>},
        po \in PortArgs}
    \cup
    {CommandLine(pt, Str0, kf, <<"e", "c", "2", ".", "a">>, <<"2", "2">>) :
        pt \in {Flag(FALSE, Str0), Flag(TRUE, <<"(">>),
                Flag(TRUE, <<"{name}", ".", "{id}">>), Flag(TRUE, <<"{profile}">>)},
        kf \in KeyFileFlags}

\* every pattern, host name and --profile value within the bounds, with the
\* other arguments as in ec2-ssh-proxy HOST 22, and the command lines above
AllArgs ==
    {CommandLine(pt, pf, Flag(FALSE, Str0), h, <<"2", "2">>) :
        pt \in PatternFlags, pf \in ProfileFlags, h \in Hosts}
    \cup RunArgs

----------------------------------------------------------------------------
(* The AWS collaborators *)

Instances == {[InstanceId |-> "i-1", AvailabilityZone |-> "az-a"],
              [InstanceId |-> "i-2", AvailabilityZone |-> "az-b"]}

\* the instances of one reservation
Reservations ==
    {<< >>} \cup {<<i>> : i \in Instances}
            \cup {<<i, j>> : i \in Instances, j \in Instances}

\* what DescribeInstances may answer: an error, or a list of reservations
DescribeOutputs ==
    {[got |-> TRUE, err |-> "", Reservations |-> r] :
        r \in SeqsUpTo(Reservations, MaxReservations)}
    \cup {[got |-> TRUE, err |-> "RequestError: DescribeInstances",
           Reservations |-> << >>]}

NoResponse == [got |-> FALSE, err |-> "", Reservations |-> << >>]

NoInstance == [InstanceId |-> "", AvailabilityZone |-> ""]

ErrInstanceNotFound == "ec2 instance is not found"
ErrPluginNotFound == "SessionManagerPlugin is not found"
ErrExecNotFound == "exec: session-manager-plugin: executable file not found in $PATH"
ErrForkExec == "fork/exec session-manager-plugin: resource temporarily unavailable"
ErrExitStatus == "exit status 1"
PanicSession == "panic: session.Must: failed to create session"

\* the DescribeInstancesInput findInstance builds from params
DescribeInput(p) ==
    [Filters |-> IF p.Name # Str0
                 THEN <<[Name |-> "tag:Name", Values |-> <<p.Name>>]>> ELSE << >>,
     InstanceIds |-> IF p.Id # Str0 THEN <<p.Id>> ELSE << >>]

\* findInstance taking the last instance of the first reservation
findInstanceLast(out) ==
    IF out.err # "" THEN [instance |-> NoInstance, err |-> out.err]
    ELSE IF Len(out.Reservations) = 0 \/ Len(out.Reservations[1]) = 0
    THEN [instance |-> NoInstance, err |-> ErrInstanceNotFound]
    ELSE [instance |-> out.Reservations[1][Len(out.Reservations[1])], err |-> ""]

\* findInstance on the response out: [instance, err]
findInstance(out) ==
    IF out.err # "" THEN [instance |-> NoInstance, err |-> out.err]
    ELSE IF Len(out.Reservations) = 0 \/ Len(out.Reservations[1]) = 0
    THEN [instance |-> NoInstance, err |-> ErrInstanceNotFound]
    ELSE [instance |-> out.Reservations[1][1], err |-> ""]

SendKeyInput(p, inst) ==
    [AvailabilityZone |-> inst.AvailabilityZone, InstanceId |-> inst.InstanceId,
     InstanceOSUser |-> p.User, SSHPublicKey |-> p.PublicKey]

StartSessionInput(p, inst) ==
    [Target |-> inst.InstanceId, DocumentName |-> "AWS-StartSSHSession",
     portNumber |-> Itoa(p.Port)]

\* the arguments of the session-manager-plugin command
CommandArgs(p, c, in) ==
    <<"session-output", c.region, "StartSession", p.Profile, in, c.endpoint>>

\* the signals ignoreUserSignals ignores
UserSignals(os) ==
    IF os = "windows" THEN {"SIGINT"} ELSE {"SIGINT", "SIGQUIT", "SIGTSTP"}

Issue(op, in) == /\ calls' = Append(calls, op)
                 /\ sent' = (op :> in) @@ sent

Alive == proc = "running"

----------------------------------------------------------------------------
(* main and run, one action per step between two outside events *)

Init ==
    /\ pc = "main"
    /\ args \in RunArgs
    /\ params = ZeroParams
    /\ err = ""
    /\ calls = << >>
    /\ sent = << >>
    /\ response = NoResponse
    /\ instance = NoInstance
    /\ client = [made |-> FALSE, profile |-> Str0, region |-> "", endpoint |-> ""]
    /\ session = "none"
    /\ checked = "none"
    /\ pluginOnPath \in BOOLEAN
    /\ lookPathErr = FALSE
    /\ goos \in {"linux", "windows"}
    /\ ignored = {}
    /\ sigcalls = [ignore |-> 0, reset |-> 0]
    /\ absorbed = {}
    /\ proc = "running"
    /\ exitCode = -1
    /\ stderr = ""

\* run: params, err := parseArgs(os.Args[1:])
run_parseArgs ==
    /\ Alive /\ pc = "main"
    /\ \E fs \in FileSystems :
          LET r == parseArgs(args, fs) IN
          /\ params' = r.p
          /\ err' = r.err
          /\ pc' = IF r.panic THEN "panicked"
                   ELSE IF r.err # "" THEN "failed" ELSE "parsed"
    /\ UNCHANGED <<args, calls, sent, response, instance, client, session,
                   checked, pluginOnPath, lookPathErr, goos, ignored, sigcalls,
                   absorbed, proc, exitCode, stderr>>

\* run: client := newClient(params.Profile); session.Must panics on an error
newClient ==
    /\ Alive /\ pc = "parsed"
    /\ \E ok \in BOOLEAN :
          IF ok
          THEN /\ client' = [made |-> TRUE, profile |-> params.Profile,
                             region |-> "region-1", endpoint |-> "ssm.region-1"]
               /\ pc' = "client"
               /\ err' = err
          ELSE /\ client' = client
               /\ pc' = "panicked"
               /\ err' = PanicSession
    /\ UNCHANGED <<args, params, calls, sent, response, instance, session,
                   checked, pluginOnPath, lookPathErr, goos, ignored, sigcalls,
                   absorbed, proc, exitCode, stderr>>

\* run going on to the key push although findInstance returned an error
run_findInstanceErrDropped ==
    /\ Alive /\ pc = "client"
    /\ Issue("DescribeInstances", DescribeInput(params))
    /\ \E out \in DescribeOutputs :
          LET r == findInstance(out) IN
          /\ response' = out
          /\ instance' = r.instance
          /\ err' = r.err
          /\ pc' = "found"
    /\ UNCHANGED <<args, params, client, session, checked, pluginOnPath,
                   lookPathErr, goos, ignored, sigcalls, absorbed, proc,
                   exitCode, stderr>>

\* run: client.findInstance(params), the DescribeInstances round trip included
run_findInstance ==
    /\ Alive /\ pc = "client"
    /\ Issue("DescribeInstances", DescribeInput(params))
    /\ \E out \in DescribeOutputs :
          LET r == findInstance(out) IN
          /\ response' = out
          /\ instance' = r.instance
          /\ err' = r.err
          /\ pc' = IF r.err # "" THEN "failed" ELSE "found"
    /\ UNCHANGED <<args, params, client, session, checked, pluginOnPath,
                   lookPathErr, goos, ignored, sigcalls, absorbed, proc,
                   exitCode, stderr>>

\* run: client.sendPublicKey(params, instanceId, availabilityZone)
sendPublicKey ==
    /\ Alive /\ pc = "found"
    /\ Issue("SendSSHPublicKey", SendKeyInput(params, instance))
    /\ \E e \in {"", "RequestError: SendSSHPublicKey"} :
          /\ err' = e
          /\ pc' = IF e # "" THEN "failed" ELSE "keysent"
    /\ response' = NoResponse
    /\ UNCHANGED <<args, params, instance, client, session, checked,
                   pluginOnPath, lookPathErr, goos, ignored, sigcalls, absorbed,
                   proc, exitCode, stderr>>

\* startSession not returning on the error of check
checkErrDropped ==
    /\ Alive /\ pc = "keysent"
    /\ checked' = IF pluginOnPath THEN "ok" ELSE "missing"
    /\ err' = IF pluginOnPath THEN "" ELSE ErrPluginNotFound
    /\ pc' = "checked"
    /\ UNCHANGED <<args, params, calls, sent, response, instance, client,
                   session, pluginOnPath, lookPathErr, goos, ignored, sigcalls,
                   absorbed, proc, exitCode, stderr>>

\* startSession: err = c.plugin.check()
check ==
    /\ Alive /\ pc = "keysent"
    /\ checked' = IF pluginOnPath THEN "ok" ELSE "missing"
    /\ err' = IF pluginOnPath THEN "" ELSE ErrPluginNotFound
    /\ pc' = IF pluginOnPath THEN "checked" ELSE "failed"
    /\ UNCHANGED <<args, params, calls, sent, response, instance, client,
                   session, pluginOnPath, lookPathErr, goos, ignored, sigcalls,
                   absorbed, proc, exitCode, stderr>>

\* startSession: out, err := c.ssm.StartSession(in)
startSession ==
    /\ Alive /\ pc = "checked"
    /\ Issue("StartSession", StartSessionInput(params, instance))
    /\ \E e \in {"", "RequestError: StartSession"} :
          /\ err' = e
          /\ session' = IF e = "" THEN "open" ELSE session
          /\ pc' = IF e # "" THEN "failed" ELSE "session"
    /\ UNCHANGED <<args, params, response, instance, client, checked,
                   pluginOnPath, lookPathErr, goos, ignored, sigcalls, absorbed,
                   proc, exitCode, stderr>>

\* start: the two json.Marshal calls and exec.Command, which looks the
\* executable up and keeps the failure in cmd
start ==
    /\ Alive /\ pc = "session"
    /\ lookPathErr' = ~pluginOnPath
    /\ pc' = "command"
    /\ UNCHANGED <<args, params, err, calls, sent, response, instance, client,
                   session, checked, pluginOnPath, goos, ignored, sigcalls,
                   absorbed, proc, exitCode, stderr>>

\* ignoreUserSignals: signal.Ignore(sig...)
ignoreUserSignals ==
    /\ Alive /\ pc = "command"
    /\ ignored' = ignored \cup UserSignals(goos)
    /\ sigcalls' = [sigcalls EXCEPT !.ignore = @ + 1]
    /\ pc' = "ignoring"
    /\ UNCHANGED <<args, params, err, calls, sent, response, instance, client,
                   session, checked, pluginOnPath, lookPathErr, goos, absorbed,
                   proc, exitCode, stderr>>

\* cmd.Run up to the start of the child: fails at once on the recorded
\* LookPath failure, may fail in fork/exec, else the child runs
cmdRun ==
    /\ Alive /\ pc = "ignoring"
    /\ IF lookPathErr
       THEN /\ err' = ErrExecNotFound
            /\ pc' = "ran"
            /\ UNCHANGED <<calls, sent>>
       ELSE /\ Issue("exec", CommandArgs(params, client, sent["StartSession"]))
            /\ \E e \in {"", ErrForkExec} :
                  /\ err' = e
                  /\ pc' = IF e = "" THEN "child" ELSE "ran"
    /\ UNCHANGED <<args, params, response, instance, client, session, checked,
                   pluginOnPath, lookPathErr, goos, ignored, sigcalls, absorbed,
                   proc, exitCode, stderr>>

\* cmd.Run returns when the child has exited
childExit ==
    /\ Alive /\ pc = "child"
    /\ \E e \in {"", ErrExitStatus} : err' = e
    /\ pc' = "ran"
    /\ UNCHANGED <<args, params, calls, sent, response, instance, client,
                   session, checked, pluginOnPath, lookPathErr, goos, ignored,
                   sigcalls, absorbed, proc, exitCode, stderr>>

\* ignoreUserSignals: the deferred signal.Reset(sig...); start, startSession
\* and run then return err.  Reset withdraws the signals from os/signal's
\* handlers but does not undo Ignore: the runtime puts a disposition back
\* only for a signal it installs no handler of its own for, so SIGINT and
\* SIGQUIT stay ignored; whether SIGTSTP does is left open.
resetUserSignals ==
    /\ Alive /\ pc = "ran"
    /\ \E left \in {ignored, ignored \ {"SIGTSTP"}} : ignored' = left
    /\ sigcalls' = [sigcalls EXCEPT !.reset = @ + 1]
    /\ pc' = IF err # "" THEN "failed" ELSE "ok"
    /\ UNCHANGED <<args, params, err, calls, sent, response, instance, client,
                   session, checked, pluginOnPath, lookPathErr, goos, absorbed,
                   proc, exitCode, stderr>>

\* main: report the error and exit 1, or return; a panic ends the process
\* with status 2 and the panic message on standard error
main ==
    /\ Alive /\ pc \in {"failed", "ok", "panicked"}
    /\ exitCode' = IF pc = "ok" THEN 0 ELSE IF pc = "failed" THEN 1 ELSE 2
    /\ stderr' = err
    /\ proc' = "exited"
    /\ pc' = "done"
    /\ UNCHANGED <<args, params, err, calls, sent, response, instance, client,
                   session, checked, pluginOnPath, lookPathErr, goos, ignored,
                   sigcalls, absorbed>>

----------------------------------------------------------------------------
(* The environment *)

\* what the Go runtime writes on an unhandled SIGQUIT, the stacks left out
SigquitDump == "SIGQUIT: quit"

\* the plugin is installed or removed while the tool runs
pluginChange ==
    /\ proc \in {"running", "stopped"}
    /\ pluginOnPath' = ~pluginOnPath
    /\ UNCHANGED <<pc, args, params, err, calls, sent, response, instance,
                   client, session, checked, lookPathErr, goos, ignored,
                   sigcalls, absorbed, proc, exitCode, stderr>>

\* a terminal signal reaches the parent: nothing happens when it is ignored,
\* else SIGTSTP stops the process, SIGINT kills it, and on SIGQUIT the Go
\* runtime writes "SIGQUIT: quit" and the goroutine stacks to standard error
\* and exits with status 2
deliverSignal ==
    /\ Alive
    /\ \E s \in UserSignals(goos) :
          /\ absorbed' = IF s \in ignored /\ pc = "child"
                         THEN absorbed \cup {s} ELSE absorbed
          /\ proc' = IF s \in ignored THEN proc
                     ELSE IF s = "SIGTSTP" THEN "stopped"
                     ELSE IF s = "SIGQUIT" THEN "exited" ELSE "killed"
          /\ exitCode' = IF s \notin ignored /\ s = "SIGQUIT" THEN 2 ELSE exitCode
          /\ stderr' = IF s \notin ignored /\ s = "SIGQUIT"
                       THEN SigquitDump ELSE stderr
    /\ UNCHANGED <<pc, args, params, err, calls, sent, response, instance,
                   client, session, checked, pluginOnPath, lookPathErr, goos,
                   ignored, sigcalls>>

\* SIGCONT resumes the stopped parent
continue ==
    /\ proc = "stopped"
    /\ proc' = "running"
    /\ UNCHANGED <<pc, args, params, err, calls, sent, response, instance,
                   client, session, checked, pluginOnPath, lookPathErr, goos,
                   ignored, sigcalls, absorbed, exitCode, stderr>>

Next ==
    \/ run_parseArgs
    \/ newClient
    \/ run_findInstance
    \/ sendPublicKey
    \/ check
    \/ startSession
    \/ start
    \/ ignoreUserSignals
    \/ cmdRun
    \/ childExit
    \/ resetUserSignals
    \/ main
    \/ pluginChange
    \/ deliverSignal
    \/ continue

Spec == Init /\ [][Next]_vars

\* parseArgs alone, on every command line within the bounds
InitArgs ==
    /\ pc = "main"
    /\ args \in AllArgs
    /\ params = ZeroParams
    /\ err = ""
    /\ calls = << >>
    /\ sent = << >>
    /\ response = NoResponse
    /\ instance = NoInstance
    /\ client = [made |-> FALSE, profile |-> Str0, region |-> "", endpoint |-> ""]
    /\ session = "none"
    /\ checked = "none"
    /\ pluginOnPath = TRUE
    /\ lookPathErr = FALSE
    /\ goos = "linux"
    /\ ignored = {}
    /\ sigcalls = [ignore |-> 0, reset |-> 0]
    /\ absorbed = {}
    /\ proc = "running"
    /\ exitCode = -1
    /\ stderr = ""

NextArgs == run_parseArgs

SpecArgs == InitArgs /\ [][NextArgs]_vars

----------------------------------------------------------------------------
(* Vocabulary of the properties *)

Count(seq, x) == Cardinality({i \in 1..Len(seq) : seq[i] = x})

StageOrder == <<"DescribeInstances", "SendSSHPublicKey", "StartSession", "exec">>

IsPrefix(s, t) == Len(s) <= Len(t) /\ s = SubSeq(t, 1, Len(s))

ThePattern == OptValue(args.pattern, DefaultPattern)

\* what the pattern extracts from HOST, whatever the flags say
Extracted == parseHostname(args.host, ThePattern, ZeroParams).p

PatternCompiles == Compiles(Substitute(ThePattern))

PatternMatches ==
    PatternCompiles /\ FindStringSubmatch(Substitute(ThePattern), args.host) # Nil

\* parseArgs got as far as calling parseHostname
HostnameParsed == pc # "main" /\ err \notin {ErrFlags, ErrHome, ErrReadFile}

\* parseArgs returned a Params record
Parsed == pc \notin {"main", "failed", "panicked"} /\ params # ZeroParams

PlaceholdersOf(pattern) == {pattern[i] : i \in 1..Len(pattern)} \cap Placeholders

\* the pattern holds exactly one placeholder, and it is tok
OnlyPlaceholder(tok) ==
    /\ PlaceholdersOf(ThePattern) = {tok}
    /\ Count(ThePattern, tok) = 1

RECURSIVE Flatten(_)
Flatten(rs) == IF rs = << >> THEN << >> ELSE Head(rs) \o Flatten(Tail(rs))

\* findInstance has run and run() has not moved on
Located == response.got

InWindow == pc \in {"ignoring", "child", "ran"}

----------------------------------------------------------------------------
(* Properties *)

\* C1: when --profile is given and {profile} captures a non-empty value from
\* HOST, the Profile of the Params parseArgs returns, and so the profile the
\* AWS client is made with, is the value of the flag.
C1_FlagProfileWins ==
    (Parsed /\ args.profile # Str0 /\ Extracted.Profile # Str0) =>
        /\ params.Profile = args.profile
        /\ client.made => client.profile = args.profile

\* C2: when the plugin executable cannot be located the run fails with the
\* plugin-not-found error, and a session that was started by then has been
\* terminated by exactly one TerminateSession call.
C2_MissingPluginTerminatesSession ==
    (pc \in {"failed", "done"} /\ (checked = "missing" \/ lookPathErr)) =>
        /\ err = ErrPluginNotFound
        /\ session # "none" =>
              session = "terminated" /\ Count(calls, "TerminateSession") = 1

\* C3: the availability check precedes the StartSession request: after a
\* failed check the run fails with the plugin-not-found error, no
\* StartSession request was issued and no session exists; a StartSession
\* request is only ever issued after a passed check.
C3_CheckBeforeStartSession ==
    /\ checked = "missing" =>
          /\ pc \in {"failed", "done"}
          /\ err = ErrPluginNotFound
          /\ Count(calls, "StartSession") = 0
          /\ session = "none"
    /\ Count(calls, "StartSession") > 0 => checked = "ok"

C3_Witness ==
    /\ checked = "missing"
    /\ pc = "done"
    /\ exitCode = 1
    /\ calls = <<"DescribeInstances", "SendSSHPublicKey">>

\* C4: the stages' calls are issued at most once each in the order
\* DescribeInstances, SendSSHPublicKey, StartSession, exec, and the error of
\* a failed stage fixes the calls made for good: none after a failure of
\* parseArgs (key file included), one after a failed lookup, and a key is
\* only pushed to an instance that was found.
C4_StagesInOrderAbortOnFailure ==
    /\ IsPrefix(calls, StageOrder)
    /\ err \in {ErrFlags, ErrHome, ErrReadFile, ErrInvalidPattern, ErrAmbiguousHost,
                ErrUnresolvedHost, PanicIndex, PanicSession} => calls = << >>
    /\ err \in {ErrInstanceNotFound, "RequestError: DescribeInstances"} =>
          calls = SubSeq(StageOrder, 1, 1)
    /\ err \in {"RequestError: SendSSHPublicKey", ErrPluginNotFound} =>
          calls = SubSeq(StageOrder, 1, 2)
    /\ err \in {"RequestError: StartSession", ErrExecNotFound} =>
          calls = SubSeq(StageOrder, 1, 3)
    /\ Len(calls) >= 2 =>
          /\ instance \in Instances
          /\ sent["SendSSHPublicKey"].InstanceId = instance.InstanceId
          /\ sent["SendSSHPublicKey"].AvailabilityZone = instance.AvailabilityZone
    /\ pc \in {"failed", "panicked"} => err # ""

C4_Witness ==
    /\ pc = "done"
    /\ err = ErrInstanceNotFound
    /\ calls = <<"DescribeInstances">>
    /\ exitCode = 1

\* C5: from signal.Ignore until the deferred signal.Reset the parent ignores
\* SIGINT (and SIGQUIT and SIGTSTP off Windows) and is neither stopped nor
\* killed; the disposition is acquired once, before the child starts, and
\* outside that window it is not in force: it was restored, once, whatever
\* the child did.
C5_SignalsIgnoredDuringHandoff ==
    /\ sigcalls.ignore <= 1
    /\ InWindow =>
          /\ UserSignals(goos) \subseteq ignored
          /\ proc = "running"
          /\ sigcalls = [ignore |-> 1, reset |-> 0]
    /\ ~InWindow =>
          /\ ignored = {}
          /\ sigcalls.reset = sigcalls.ignore
    /\ absorbed # {} => sigcalls.ignore = 1
    /\ (pc \in {"failed", "ok", "done"} /\ Len(calls) >= 3 /\ session = "open") =>
          sigcalls = [ignore |-> 1, reset |-> 1]

\* C6: on a pattern that compiles parseHostname returns normally: with the
\* ambiguous-host error exactly when name and id are both extracted, with
\* the unresolved-host error exactly when neither is (a host name the
\* pattern does not match included), and else with success and exactly one
\* of Name and Id set.
C6_ThreeOutcomes ==
    (HostnameParsed /\ PatternCompiles) =>
        /\ pc # "panicked"
        /\ err = ErrAmbiguousHost <=> (Extracted.Name # Str0 /\ Extracted.Id # Str0)
        /\ err = ErrUnresolvedHost <=> (Extracted.Name = Str0 /\ Extracted.Id = Str0)
        /\ err \in {"", ErrAmbiguousHost, ErrUnresolvedHost}
        /\ err = "" => (params.Name = Str0) # (params.Id = Str0)

\* C7: a run that main ends exits with status 0 after every stage succeeded,
\* or with status 1 and the error on standard error after a stage failed.
C7_ExitCodes ==
    (proc = "exited" /\ pc = "done") =>
        \/ exitCode = 0 /\ err = "" /\ stderr = "" /\ calls = StageOrder
        \/ exitCode = 1 /\ err # "" /\ stderr = err

\* C8 as stated: with exactly one placeholder in a pattern that matches HOST,
\* resolution succeeds and sets that placeholder's field to the captured
\* text, and the other two of name, id and profile are as they were.
C8_AnySinglePlaceholderResolves ==
    \A tok \in Placeholders :
        (HostnameParsed /\ OnlyPlaceholder(tok) /\ PatternMatches) =>
            /\ pc = "parsed"
            /\ params.Name = Extracted.Name
            /\ params.Id = Extracted.Id
            /\ params.Profile = IF tok = "{profile}" THEN Extracted.Profile
                                ELSE args.profile
            /\ Cardinality({f \in {"Name", "Id", "Profile"} : Extracted[f] # Str0}) = 1
            /\ Extracted[IF tok = "{name}" THEN "Name"
                         ELSE IF tok = "{id}" THEN "Id" ELSE "Profile"]
                  = FindStringSubmatch(Substitute(ThePattern), args.host)[2]

\* C8 amended: that holds when the one placeholder is {name} or {id}; when it
\* is {profile}, resolution fails with the unresolved-host error.
C8_SingleNameOrIdResolves ==
    /\ \A tok \in {"{name}", "{id}"} :
          (HostnameParsed /\ OnlyPlaceholder(tok) /\ PatternMatches) =>
              /\ pc = "parsed"
              /\ params.Name = IF tok = "{name}"
                               THEN FindStringSubmatch(Substitute(ThePattern), args.host)[2]
                               ELSE Str0
              /\ params.Id = IF tok = "{id}"
                             THEN FindStringSubmatch(Substitute(ThePattern), args.host)[2]
                             ELSE Str0
              /\ params.Profile = args.profile
              /\ (params.Name # Str0) # (params.Id # Str0)
    /\ (HostnameParsed /\ OnlyPlaceholder("{profile}") /\ PatternMatches) =>
          pc = "failed" /\ err = ErrUnresolvedHost

C8_Witness ==
    /\ pc = "parsed"
    /\ args.pattern = Flag(TRUE, <<".", "{name}">>)
    /\ args.host = <<"a", ".", "-">>
    /\ params.Name = <<"-">>
    /\ params.Id = Str0

\* C9: every Params record parseArgs returns, and so every portNumber sent
\* with StartSession, holds a port greater than zero.
C9_PortPositive ==
    /\ Parsed => params.Port > 0
    /\ "StartSession" \in DOMAIN sent =>
          ParseInt(sent["StartSession"].portNumber) > 0

\* C10 as stated: one DescribeInstances request with exactly one of the name
\* filter and the id list; an API error comes back unchanged; the lookup
\* fails with not-found exactly when the response holds no reservation or no
\* instance, and else returns the first instance of the response.
C10_FirstInstanceOfResponse ==
    Located =>
        /\ Count(calls, "DescribeInstances") = 1
        /\ (sent["DescribeInstances"].Filters = << >>)
              # (sent["DescribeInstances"].InstanceIds = << >>)
        /\ response.err # "" => err = response.err /\ instance = NoInstance
        /\ response.err = "" =>
              /\ err = ErrInstanceNotFound <=> Flatten(response.Reservations) = << >>
              /\ err \in {"", ErrInstanceNotFound}
              /\ err = "" => /\ pc = "found"
                             /\ instance = Flatten(response.Reservations)[1]

\* C10 amended: not-found exactly when the response holds no reservation or
\* its first reservation holds no instance; else the first instance of the
\* first reservation is returned.
C10_FirstInstanceOfFirstReservation ==
    Located =>
        /\ Count(calls, "DescribeInstances") = 1
        /\ (sent["DescribeInstances"].Filters = << >>)
              # (sent["DescribeInstances"].InstanceIds = << >>)
        /\ sent["DescribeInstances"].Filters # << >> =>
              sent["DescribeInstances"].Filters
                 = <<[Name |-> "tag:Name", Values |-> <<params.Name>>]>>
        /\ sent["DescribeInstances"].InstanceIds # << >> =>
              sent["DescribeInstances"].InstanceIds = <<params.Id>>
        /\ response.err # "" => err = response.err /\ instance = NoInstance
        /\ response.err = "" =>
              /\ err = ErrInstanceNotFound <=>
                    \/ Len(response.Reservations) = 0
                    \/ Len(response.Reservations[1]) = 0
              /\ err \in {"", ErrInstanceNotFound}
              /\ err = "" => /\ pc = "found"
                             /\ instance = response.Reservations[1][1]
              /\ err # "" => pc \in {"failed", "done"} /\ instance = NoInstance

C10_Witness ==
    /\ pc = "found"
    /\ Len(response.Reservations) = 2
    /\ Len(response.Reservations[1]) = 2
    /\ response.Reservations[1][1] # response.Reservations[1][2]
    /\ instance = response.Reservations[1][1]
    /\ instance.InstanceId = "i-2"

====
